---- MODULE Spec2Model ----
(***************************************************************************)
(* Model of home-server-remote-sensing:                                    *)
(*   src/satellite_fetcher.py  - download_subset and the fetcher driver    *)
(*   src/satellite_analyzer.py - calculate_index and the analyzer driver   *)
(*                                                                         *)
(* Two specifications:                                                     *)
(*   SpecIndex - calculate_index as a function of the two decoded bands    *)
(*               (arrays of uint16 pixels, NumPy dtype and broadcasting    *)
(*               rules), called on (band1, band2) and on (band2, band1).   *)
(*   Spec      - the two command-line programs, step by step, with every   *)
(*               raster handle they open and every step that can raise.    *)
(***************************************************************************)
EXTENDS Integers, Sequences, FiniteSets, TLC

VARIABLES
    band1,      \* SpecIndex: pixels decoded from band1_path (rows of columns)
    band2,      \* SpecIndex: pixels decoded from band2_path
    fwd,        \* SpecIndex: outcome of calculate_index(band1_path, band2_path)
    rev,        \* SpecIndex: outcome of calculate_index(band2_path, band1_path)
    prog,       \* which program runs: "fetcher", "analyzer" ("none" in SpecIndex)
    pc,         \* the statement the program is at
    handles,    \* each raster handle of the current call: "new", "open", "closed"
    closeLog,   \* the handles closed during the current call, in order
    args,       \* fetcher: the parsed command line
    search_bbox, \* fetcher: main's search_bbox
    todo,       \* fetcher: the bands the loop has not reached yet
    band,       \* fetcher: the loop variable
    calls,      \* fetcher: how often download_subset was called for each band
    callBbox,   \* fetcher: the bbox argument of the band's latest call
    saved,      \* output files written so far (band crops, heatmaps)
    view,       \* download_subset: vrt
    window,     \* download_subset: window
    profile,    \* download_subset: profile
    failedAt,   \* the step of the latest call that raised ("none": no step)
    ret,        \* what main observed of the latest download_subset call
    files,      \* analyzer: the four band files on disk
    index_name, \* analyzer: calculate_index's index_name
    b1,         \* calculate_index: b1
    b2,         \* calculate_index: b2
    index_map,  \* analyzer: the index array calculate_index returned
    attempted   \* analyzer: the indices calculate_index was called for

ivars == <<band1, band2, fwd, rev>>

dvars == <<prog, pc, handles, closeLog, args, search_bbox, todo, band, calls,
           callBbox, saved, view, window, profile, failedAt, ret, files,
           index_name, b1, b2, index_map, attempted>>

vars == <<ivars, dvars>>

(***************************************************************************)
(* Bounds of the model.                                                    *)
(***************************************************************************)
\* a raster on disk has at most MaxPixels pixels (rows * columns)
MaxPixels == 3

(***************************************************************************)
(* Pixel values.  Sentinel-2 L2A band assets are uint16 rasters, and        *)
(* download_subset writes its crop with the dtype of the view's profile,    *)
(* so src.read(1) returns a uint16 array.                                   *)
(***************************************************************************)
UInt16Modulus == 65536

\* sample pixel values: zero, a small reflectance and the largest uint16
PixelValues == {0, 5, UInt16Modulus - 1}

Shapes == {s \in (1..MaxPixels) \X (1..MaxPixels) : s[1] * s[2] <= MaxPixels}

\* every decodable raster of the model: rows of columns of pixels
Rasters == UNION {[1..s[1] -> [1..s[2] -> PixelValues]] : s \in Shapes}

Rows(a) == Len(a)
Cols(a) == Len(a[1])
Shape(a) == <<Rows(a), Cols(a)>>

(***************************************************************************)
(* float32 values.  Integers are kept as integers; a quotient is a         *)
(* rational in lowest terms with a positive denominator, or nan / inf.     *)
(* The rounding of a quotient to 24 bits of mantissa is not modelled: it   *)
(* is monotone, keeps 0, 1 and -1 and commutes with negation.              *)
(***************************************************************************)
Abs(x) == IF x < 0 THEN -x ELSE x

RECURSIVE Gcd(_, _)
Gcd(x, y) == IF y = 0 THEN x ELSE Gcd(y, x % y)

Rat(n, d) ==
    LET g == Gcd(Abs(n), Abs(d))
        s == IF d < 0 THEN -1 ELSE 1
    IN  [k |-> "num", n |-> (s * n) \div g, d |-> (s * d) \div g]

NaN == [k |-> "nan", n |-> 0, d |-> 0]
PosInf == [k |-> "inf", n |-> 1, d |-> 0]
NegInf == [k |-> "inf", n |-> -1, d |-> 0]
Zero == Rat(0, 1)
One == Rat(1, 1)

Neg(v) == [v EXCEPT !.n = -v.n]

\* v lies in [-1, 1]
InUnitRange(v) == v.k = "num" /\ -v.d <= v.n /\ v.n <= v.d

\* the number of bits of x > 0
RECURSIVE BitLength(_)
BitLength(x) == IF x = 0 THEN 0 ELSE 1 + BitLength(x \div 2)

RECURSIVE Pow2(_)
Pow2(e) == IF e = 0 THEN 1 ELSE 2 * Pow2(e - 1)

\* the float32 nearest to the integer x (ties to even): exact up to 2^24
RoundF32(x) ==
    LET m == Abs(x)
        e == BitLength(m) - 24
    IN  IF e <= 0 THEN x
        ELSE LET u == Pow2(e)
                 q == m \div u
                 r == m % u
                 up == (2 * r > u) \/ (2 * r = u /\ q % 2 = 1)
                 t == (IF up THEN q + 1 ELSE q) * u
             IN  IF x < 0 THEN -t ELSE t

(***************************************************************************)
(* NumPy arrays: [dtype, data].  Arithmetic follows the operands' dtype:   *)
(* uint16 wraps modulo 2^16, float32 rounds.                               *)
(***************************************************************************)
Array(dtype, data) == [dtype |-> dtype, data |-> data]

\* src.read(1): the band as stored
Read(raster) == Array("uint16", raster)

\* the mutant of AsFloat32: the conversion left out
AsFloat32_NoCast(arr) == arr

\* .astype('float32')
AsFloat32(arr) ==
    Array("float32",
          [i \in 1..Rows(arr.data) |->
              [j \in 1..Cols(arr.data) |-> RoundF32(arr.data[i][j])]])

\* NumPy's broadcasting rule for two 2-D shapes
Broadcastable(s1, s2) ==
    /\ s1[1] = s2[1] \/ s1[1] = 1 \/ s2[1] = 1
    /\ s1[2] = s2[2] \/ s1[2] = 1 \/ s2[2] = 1

Max(x, y) == IF x >= y THEN x ELSE y

BroadcastShape(s1, s2) == <<Max(s1[1], s2[1]), Max(s1[2], s2[2])>>

\* element (i, j) of data stretched to a broadcast shape
At(data, i, j) ==
    data[IF Rows(data) = 1 THEN 1 ELSE i][IF Cols(data) = 1 THEN 1 ELSE j]

AddScalar(dtype, x, y) ==
    IF dtype = "uint16" THEN (x + y) % UInt16Modulus ELSE RoundF32(x + y)

\* the mutant of SubScalar: the absolute difference
SubScalar_Abs(dtype, x, y) ==
    IF dtype = "uint16" THEN Abs(x - y) ELSE RoundF32(Abs(x - y))

SubScalar(dtype, x, y) ==
    IF dtype = "uint16" THEN (x - y) % UInt16Modulus ELSE RoundF32(x - y)

\* true division with errstate(divide='ignore', invalid='ignore')
DivScalar(x, y) ==
    IF y # 0 THEN Rat(x, y)
    ELSE IF x = 0 THEN NaN
    ELSE IF x > 0 THEN PosInf ELSE NegInf

\* the mutant of Where: the quotient everywhere
Where_Unguarded(cond, fill, other) == other

\* one element of np.where(cond, fill, other), fill a scalar
Where(cond, fill, other) == IF cond THEN fill ELSE other

IndexResult(status, m) == [status |-> status, index_map |-> m]

NotRun == IndexResult("NotRun", <<>>)

\* one element of the index map, from the elements p of b1 and q of b2:
\* denominator = b1 + b2; np.where(denominator == 0., 0., (b1 - b2) / denominator).
\* np.where evaluates the quotient at every position, the zero ones included.
IndexAt(dtype, p, q) ==
    LET denominator == AddScalar(dtype, p, q)
        quotient == DivScalar(SubScalar(dtype, p, q), denominator)
    IN  Where(denominator = 0, Zero, quotient)

\* lines 24-29 of calculate_index on the arrays b1 and b2; arrays that do
\* not broadcast make b1 + b2 raise ValueError
NormalizedDifference(x1, x2) ==
    IF ~Broadcastable(Shape(x1.data), Shape(x2.data))
    THEN IndexResult("ValueError", <<>>)
    ELSE
    LET s == BroadcastShape(Shape(x1.data), Shape(x2.data))
    IN  IndexResult("ok",
            [i \in 1..s[1] |-> [j \in 1..s[2] |->
                IndexAt(x1.dtype, At(x1.data, i, j), At(x2.data, i, j))]])

\* calculate_index on the decoded bands x (band1_path) and y (band2_path)
CalculateIndex(x, y) ==
    NormalizedDifference(AsFloat32(Read(x)), AsFloat32(Read(y)))

(***************************************************************************)
(* Raster handles and the with statement.                                  *)
(***************************************************************************)
Handles == {"src", "vrt", "dst", "src1", "src2"}

NewHandles == [h \in Handles |-> "new"]

HandleState(hs, log) == [handles |-> hs, log |-> log]

\* entering "with ... as h"
Enter(h, hs) == [hs EXCEPT ![h] = "open"]

\* the mutant of ExitWith: open() and close() without a with statement, the
\* close skipped when the body raises
ExitWith_NoFinally(h, st, raising) ==
    IF raising THEN st
    ELSE HandleState([st.handles EXCEPT ![h] = "closed"], Append(st.log, h))

\* leaving the with block of h, normally or by an exception: h is closed
ExitWith(h, st, raising) ==
    HandleState([st.handles EXCEPT ![h] = "closed"], Append(st.log, h))

\* leaving nested with blocks, innermost first
RECURSIVE ExitScopes(_, _, _)
ExitScopes(scopes, st, raising) ==
    IF scopes = <<>> THEN st
    ELSE ExitScopes(Tail(scopes), ExitWith(Head(scopes), st, raising), raising)

\* the place of h in the log (0: not in it)
RECURSIVE IndexOf(_, _)
IndexOf(log, h) ==
    IF log = <<>> THEN 0
    ELSE IF log[Len(log)] = h THEN Len(log)
    ELSE IndexOf(SubSeq(log, 1, Len(log) - 1), h)

(***************************************************************************)
(* The fetcher: views, windows, profiles.                                  *)
(***************************************************************************)
\* window offsets range over -1 .. MaxOffset, extents over 0 .. MaxExtent
MaxOffset == 1
MaxExtent == 1

Bands == {"B03", "B04", "B08", "B11"}

Affine(a, b, c, d, e, f) == [a |-> a, b |-> b, c |-> c, d |-> d, e |-> e, f |-> f]

\* transform * (col, row): the world coordinate of a pixel corner
Apply(t, col, row) == <<t.a * col + t.b * row + t.c, t.d * col + t.e * row + t.f>>

Profile(driver, dtype, count, width, height, transform) ==
    [driver |-> driver, dtype |-> dtype, count |-> count, crs |-> "EPSG:4326",
     width |-> width, height |-> height, transform |-> transform]

View(dtype, count, width, height, transform) ==
    [transform |-> transform,
     profile |-> Profile("VRT", dtype, count, width, height, transform)]

\* the views WarpedVRT(src, crs="EPSG:4326") can present: a north-up
\* single-band uint16 asset and a rotated three-band uint8 one
Views ==
    { View("uint16", 1, 4, 4, Affine(2, 0, 100, 0, -2, 200)),
      View("uint8", 3, 6, 5, Affine(1, 1, -7, 1, -1, 3)) }

MakeWindow(col_off, row_off, width, height) ==
    [col_off |-> col_off, row_off |-> row_off, width |-> width, height |-> height]

\* the windows vrt.window(*bbox) can return: the resolver does not clamp,
\* so offsets may be negative and extents zero
Windows ==
    { MakeWindow(c, r, w, h) :
        c \in -1..MaxOffset, r \in -1..MaxOffset,
        w \in 0..MaxExtent, h \in 0..MaxExtent }

NoView == View("", 0, 0, 0, Affine(0, 0, 0, 0, 0, 0))
NoWindow == MakeWindow(0, 0, 0, 0)
NoProfile == Profile("", "", 0, 0, 0, Affine(0, 0, 0, 0, 0, 0))

\* the mutant of WindowTransform: the view's transform, not moved
WindowTransform_Unmoved(t, w) == t

\* vrt.window_transform(window): transform * Affine.translation(col_off, row_off)
WindowTransform(t, w) ==
    [t EXCEPT !.c = t.a * w.col_off + t.b * w.row_off + t.c,
              !.f = t.d * w.col_off + t.e * w.row_off + t.f]

\* the mutant of OutputProfile: height and width left as the view's
OutputProfile_NoResize(v, w) ==
    [v.profile EXCEPT !.driver = "GTiff",
                      !.transform = WindowTransform(v.transform, w)]

\* profile = vrt.profile.copy(); profile.update({...})
OutputProfile(v, w) ==
    [v.profile EXCEPT !.driver = "GTiff",
                      !.height = w.height,
                      !.width = w.width,
                      !.transform = WindowTransform(v.transform, w)]

\* the bands main lists for an index
RequiredBands(index) ==
    (IF index \in {"ndvi", "all"} THEN {"B04", "B08"} ELSE {})
        \cup (IF index \in {"ndwi", "all"} THEN {"B03", "B11"} ELSE {})

\* search_bbox of main
SearchBbox(lon, lat, size) == <<lon - size, lat - size, lon + size, lat + size>>

NoBbox == <<0, 0, 0, 0>>

\* the command lines of the model: --point, one of the four indices, with
\* or without --save, two sizes of the search box
ArgSets ==
    [index : {"preview", "ndvi", "ndwi", "all"}, save : BOOLEAN,
     lon : {139}, lat : {35}, bbox_size : {1, 2}]

NoArgs == [index |-> "", save |-> FALSE, lon |-> 0, lat |-> 0, bbox_size |-> 0]

\* the steps of download_subset that can raise, and the with blocks each is in
DownloadSteps == {"open_src", "open_vrt", "window", "read", "open_dst", "write"}

OpenScopes(step) ==
    CASE step = "open_src" -> <<>>
      [] step = "open_vrt" -> <<"src">>
      [] step \in {"window", "read", "open_dst"} -> <<"vrt", "src">>
      [] step = "write" -> <<"dst", "vrt", "src">>

\* the mutant of Catches: no handler
Catches_Nothing(step) == FALSE

\* "except Exception" of download_subset: what the steps raise
\* (RasterioIOError, CRSError, WindowError, ValueError, ...) derives from
\* Exception, at every step
Catches(step) == step \in DownloadSteps

(***************************************************************************)
(* The analyzer: band files.                                               *)
(***************************************************************************)
File(kind, raster) == [kind |-> kind, raster |-> raster]

\* a file is missing, corrupt (opening it or reading it raises) or a raster;
\* the two rasters of the drivers do not broadcast against each other
Missing == File("missing", <<>>)
Corrupt == File("corrupt", <<>>)
DriverRasters == { <<<<5, 0>>>>, <<<<0, 5, 5>>>> }
FileStates == {Missing, Corrupt} \cup {File("ok", r) : r \in DriverRasters}

Exists(f) == f.kind # "missing"

NoArray == Array("", <<>>)

\* band1_path and band2_path of each calculate_index call of main
Band1Of(name) == IF name = "NDVI" THEN "B08" ELSE "B03"
Band2Of(name) == IF name = "NDVI" THEN "B04" ELSE "B11"

CalcSteps == {"open1", "read1", "open2", "read2", "compute"}

(***************************************************************************)
(* Spec: the two programs.                                                 *)
(***************************************************************************)
callVars == <<view, window, profile>>
fetcherVars == <<args, search_bbox, todo, band, calls, callBbox, ret>>
analyzerVars == <<files, index_name, b1, b2, index_map, attempted>>

\* the driver variables while no program runs (SpecIndex)
DriverIdle ==
    /\ prog = "none"
    /\ pc = "idle"
    /\ handles = NewHandles
    /\ closeLog = <<>>
    /\ args = NoArgs
    /\ search_bbox = NoBbox
    /\ todo = {}
    /\ band = ""
    /\ calls = [b \in Bands |-> 0]
    /\ callBbox = [b \in Bands |-> NoBbox]
    /\ saved = {}
    /\ view = NoView
    /\ window = NoWindow
    /\ profile = NoProfile
    /\ failedAt = "none"
    /\ ret = "NotCalled"
    /\ files = [b \in Bands |-> Missing]
    /\ index_name = ""
    /\ b1 = NoArray
    /\ b2 = NoArray
    /\ index_map = <<>>
    /\ attempted = {}

\* the index variables while a program runs (Spec)
IndexIdle ==
    /\ band1 = <<<<0>>>>
    /\ band2 = <<<<0>>>>
    /\ fwd = NotRun
    /\ rev = NotRun

\* satellite_fetcher.py started with a command line of ArgSets
FetcherInit ==
    /\ prog = "fetcher"
    /\ pc = "start"
    /\ args \in ArgSets
    /\ files = [b \in Bands |-> Missing]

\* satellite_analyzer.py started on a directory holding any four band files
AnalyzerInit ==
    /\ prog = "analyzer"
    /\ pc = "ndvi_check"
    /\ args = NoArgs
    /\ files \in [Bands -> FileStates]

Init ==
    /\ IndexIdle
    /\ handles = NewHandles
    /\ closeLog = <<>>
    /\ search_bbox = NoBbox
    /\ todo = {}
    /\ band = ""
    /\ calls = [b \in Bands |-> 0]
    /\ callBbox = [b \in Bands |-> NoBbox]
    /\ saved = {}
    /\ view = NoView
    /\ window = NoWindow
    /\ profile = NoProfile
    /\ failedAt = "none"
    /\ ret = "NotCalled"
    /\ index_name = ""
    /\ b1 = NoArray
    /\ b2 = NoArray
    /\ index_map = <<>>
    /\ attempted = {}
    /\ (FetcherInit \/ AnalyzerInit)

(***************************************************************************)
(* satellite_fetcher.py: main.                                             *)
(***************************************************************************)
\* the catalog search: no item ends the run
Search ==
    /\ prog = "fetcher"
    /\ pc = "start"
    /\ search_bbox' = SearchBbox(args.lon, args.lat, args.bbox_size)
    /\ \E found \in BOOLEAN : pc' = IF found THEN "preview" ELSE "no_items"
    /\ UNCHANGED <<ivars, prog, handles, closeLog, args, todo, band, calls,
                   callBbox, saved, callVars, failedAt, ret, analyzerVars>>

\* the preview: download_file catches what it raises
Preview ==
    /\ prog = "fetcher"
    /\ pc = "preview"
    /\ IF args.index \in {"preview", "all"} /\ args.save
       THEN \E ok \in BOOLEAN :
                saved' = IF ok THEN saved \cup {"preview"} ELSE saved
       ELSE saved' = saved
    /\ pc' = "bands"
    /\ UNCHANGED <<ivars, prog, handles, closeLog, fetcherVars, callVars,
                   failedAt, analyzerVars>>

\* bands = list(set(bands)), or no band without --save
ListBands ==
    /\ prog = "fetcher"
    /\ pc = "bands"
    /\ IF args.index \in {"ndvi", "ndwi", "all"} /\ args.save
       THEN todo' = RequiredBands(args.index) /\ pc' = "loop"
       ELSE todo' = {} /\ pc' = "done"
    /\ UNCHANGED <<ivars, prog, handles, closeLog, args, search_bbox, band,
                   calls, callBbox, saved, callVars, failedAt, ret,
                   analyzerVars>>

\* the loop takes the next band, in the order the set gives, and calls
\* download_subset(href, path, search_bbox)
CallDownload ==
    /\ prog = "fetcher"
    /\ pc = "loop"
    /\ \E b \in todo :
        /\ band' = b
        /\ todo' = todo \ {b}
        /\ calls' = [calls EXCEPT ![b] = @ + 1]
        /\ callBbox' = [callBbox EXCEPT ![b] = search_bbox]
    /\ handles' = NewHandles
    /\ closeLog' = <<>>
    /\ failedAt' = "none"
    /\ ret' = "Pending"
    /\ pc' = "open_src"
    /\ UNCHANGED <<ivars, prog, args, search_bbox, saved, callVars,
                   analyzerVars>>

LoopEnd ==
    /\ prog = "fetcher"
    /\ pc = "loop"
    /\ todo = {}
    /\ pc' = "done"
    /\ UNCHANGED <<ivars, prog, handles, closeLog, fetcherVars, saved,
                   callVars, failedAt, analyzerVars>>

(***************************************************************************)
(* satellite_fetcher.py: download_subset.                                  *)
(***************************************************************************)
\* with rasterio.open(href) as src
OpenSrc ==
    /\ pc = "open_src"
    /\ handles' = Enter("src", handles)
    /\ pc' = "open_vrt"
    /\ UNCHANGED <<ivars, prog, closeLog, fetcherVars, saved, callVars,
                   failedAt, analyzerVars>>

\* with WarpedVRT(src, crs="EPSG:4326") as vrt
OpenVrt ==
    /\ pc = "open_vrt"
    /\ \E v \in Views : view' = v
    /\ handles' = Enter("vrt", handles)
    /\ pc' = "window"
    /\ UNCHANGED <<ivars, prog, closeLog, fetcherVars, saved, window, profile,
                   failedAt, analyzerVars>>

\* window = vrt.window(*bbox)
ResolveWindow ==
    /\ pc = "window"
    /\ \E w \in Windows : window' = w
    /\ pc' = "read"
    /\ UNCHANGED <<ivars, prog, handles, closeLog, fetcherVars, saved, view,
                   profile, failedAt, analyzerVars>>

\* data = vrt.read(window=window), then the profile of the crop
ReadSubset ==
    /\ pc = "read"
    /\ profile' = OutputProfile(view, window)
    /\ pc' = "open_dst"
    /\ UNCHANGED <<ivars, prog, handles, closeLog, fetcherVars, saved, view,
                   window, failedAt, analyzerVars>>

\* with rasterio.open(save_path, 'w', **profile) as dst
OpenDst ==
    /\ pc = "open_dst"
    /\ handles' = Enter("dst", handles)
    /\ pc' = "write"
    /\ UNCHANGED <<ivars, prog, closeLog, fetcherVars, saved, callVars,
                   failedAt, analyzerVars>>

\* dst.write(data), the three with blocks left, the function returns None
WriteSubset ==
    /\ pc = "write"
    /\ saved' = saved \cup {band}
    /\ LET st == ExitScopes(OpenScopes("write"),
                            HandleState(handles, closeLog), FALSE)
       IN  handles' = st.handles /\ closeLog' = st.log
    /\ ret' = "None"
    /\ view' = NoView
    /\ window' = NoWindow
    /\ profile' = NoProfile
    /\ pc' = "loop"
    /\ UNCHANGED <<ivars, prog, args, search_bbox, todo, band, calls, callBbox,
                   failedAt, analyzerVars>>

\* a step raises: the with blocks it is in are left, and the handler of
\* download_subset prints the error and lets the function return None
DownloadRaise ==
    /\ pc \in DownloadSteps
    /\ LET st == ExitScopes(OpenScopes(pc),
                            HandleState(handles, closeLog), TRUE)
       IN  handles' = st.handles /\ closeLog' = st.log
    /\ failedAt' = pc
    /\ IF Catches(pc)
       THEN ret' = "None" /\ pc' = "loop"
       ELSE ret' = "raised" /\ pc' = "crashed"
    /\ view' = NoView
    /\ window' = NoWindow
    /\ profile' = NoProfile
    /\ UNCHANGED <<ivars, prog, args, search_bbox, todo, band, calls, callBbox,
                   saved, analyzerVars>>

(***************************************************************************)
(* satellite_analyzer.py: main and calculate_index.                        *)
(***************************************************************************)
\* "if exists(band1) and exists(band2)": call calculate_index, or skip
CheckFiles(name, here, skip) ==
    /\ prog = "analyzer"
    /\ pc = here
    /\ IF Exists(files[Band1Of(name)]) /\ Exists(files[Band2Of(name)])
       THEN /\ attempted' = attempted \cup {name}
            /\ index_name' = name
            /\ handles' = NewHandles
            /\ closeLog' = <<>>
            /\ pc' = "open1"
       ELSE /\ pc' = skip
            /\ UNCHANGED <<attempted, index_name, handles, closeLog>>
    /\ UNCHANGED <<ivars, prog, fetcherVars, saved, callVars, failedAt, files,
                   b1, b2, index_map>>

CheckNdvi == CheckFiles("NDVI", "ndvi_check", "mndwi_check")

CheckMndwi == CheckFiles("MNDWI", "mndwi_check", "done")

\* with rasterio.open(band1_path) as src1
Open1 ==
    /\ pc = "open1"
    /\ handles' = Enter("src1", handles)
    /\ pc' = "read1"
    /\ UNCHANGED <<ivars, prog, closeLog, fetcherVars, saved, callVars,
                   failedAt, analyzerVars>>

\* b1 = src1.read(1).astype('float32'), and the with block left
Read1 ==
    /\ pc = "read1"
    /\ files[Band1Of(index_name)].kind = "ok"
    /\ b1' = AsFloat32(Read(files[Band1Of(index_name)].raster))
    /\ LET st == ExitWith("src1", HandleState(handles, closeLog), FALSE)
       IN  handles' = st.handles /\ closeLog' = st.log
    /\ pc' = "open2"
    /\ UNCHANGED <<ivars, prog, fetcherVars, saved, callVars, failedAt, files,
                   index_name, b2, index_map, attempted>>

\* with rasterio.open(band2_path) as src2
Open2 ==
    /\ pc = "open2"
    /\ handles' = Enter("src2", handles)
    /\ pc' = "read2"
    /\ UNCHANGED <<ivars, prog, closeLog, fetcherVars, saved, callVars,
                   failedAt, analyzerVars>>

\* b2 = src2.read(1).astype('float32'), and the with block left
Read2 ==
    /\ pc = "read2"
    /\ files[Band2Of(index_name)].kind = "ok"
    /\ b2' = AsFloat32(Read(files[Band2Of(index_name)].raster))
    /\ LET st == ExitWith("src2", HandleState(handles, closeLog), FALSE)
       IN  handles' = st.handles /\ closeLog' = st.log
    /\ pc' = "compute"
    /\ UNCHANGED <<ivars, prog, fetcherVars, saved, callVars, failedAt, files,
                   index_name, b1, index_map, attempted>>

\* the index of the two arrays, returned to main
Compute ==
    /\ pc = "compute"
    /\ LET r == NormalizedDifference(b1, b2)
       IN  r.status = "ok" /\ index_map' = r.index_map
    /\ b1' = NoArray
    /\ b2' = NoArray
    /\ pc' = "save_heatmap"
    /\ UNCHANGED <<ivars, prog, handles, closeLog, fetcherVars, saved,
                   callVars, failedAt, files, index_name, attempted>>

\* the file a step of calculate_index works on
FileOfStep(step) ==
    IF step \in {"open1", "read1"} THEN files[Band1Of(index_name)]
    ELSE files[Band2Of(index_name)]

CalcScopes(step) ==
    CASE step = "read1" -> <<"src1">>
      [] step = "read2" -> <<"src2">>
      [] OTHER -> <<>>

\* a step of calculate_index raises (a corrupt file at open or read, arrays
\* that do not broadcast at b1 + b2): the with block is left, and neither
\* calculate_index nor main has a handler, so the exception ends the program
CalcRaise ==
    /\ pc \in CalcSteps
    /\ IF pc = "compute"
       THEN NormalizedDifference(b1, b2).status = "ValueError"
       ELSE FileOfStep(pc).kind = "corrupt"
    /\ LET st == ExitScopes(CalcScopes(pc),
                            HandleState(handles, closeLog), TRUE)
       IN  handles' = st.handles /\ closeLog' = st.log
    /\ failedAt' = pc
    /\ b1' = NoArray
    /\ b2' = NoArray
    /\ pc' = "crashed"
    /\ UNCHANGED <<ivars, prog, fetcherVars, saved, callVars, files,
                   index_name, index_map, attempted>>

\* save_heatmap(index, ...): the heatmap is written, or savefig raises and
\* the exception ends the program
SaveHeatmap ==
    /\ pc = "save_heatmap"
    /\ \E ok \in BOOLEAN :
        IF ok
        THEN /\ saved' = saved \cup {index_name}
             /\ pc' = IF index_name = "NDVI" THEN "mndwi_check" ELSE "done"
             /\ UNCHANGED failedAt
        ELSE /\ failedAt' = "save_heatmap"
             /\ pc' = "crashed"
             /\ UNCHANGED saved
    /\ index_map' = <<>>
    /\ UNCHANGED <<ivars, prog, handles, closeLog, fetcherVars, callVars,
                   files, index_name, b1, b2, attempted>>

Next ==
    \/ Search \/ Preview \/ ListBands \/ CallDownload \/ LoopEnd
    \/ OpenSrc \/ OpenVrt \/ ResolveWindow \/ ReadSubset \/ OpenDst
    \/ WriteSubset \/ DownloadRaise
    \/ CheckNdvi \/ CheckMndwi \/ Open1 \/ Read1 \/ Open2 \/ Read2
    \/ Compute \/ CalcRaise \/ SaveHeatmap

Spec == Init /\ [][Next]_vars

(***************************************************************************)
(* Claims on the two programs (checked under Spec).                        *)
(***************************************************************************)
\* the statements at which a handle of the current call may be open
InsideWith == DownloadSteps \cup {"open1", "read1", "open2", "read2"}

\* C1: once download_subset or calculate_index has returned or raised, on
\* every path, none of the handles it opened is still open, and the view was
\* closed before the source it wraps.
C1_HandlesClosedOnReturn ==
    /\ pc \notin InsideWith => \A h \in Handles : handles[h] # "open"
    /\ handles["src"] = "closed" => handles["vrt"] # "open"
    /\ IndexOf(closeLog, "vrt") > 0
          => IndexOf(closeLog, "vrt") < IndexOf(closeLog, "src")

\* download_subset returned after dst.write raised with all three handles
\* open: they were closed output first, then view, then source
C1_Witness ==
    /\ prog = "fetcher"
    /\ pc = "loop"
    /\ failedAt = "write"
    /\ closeLog = <<"dst", "vrt", "src">>
    /\ \A h \in {"src", "vrt", "dst"} : handles[h] = "closed"

\* C2: the analyzer attempts MNDWI whenever _B03 and _B11 exist, whatever
\* happened to NDVI before it.
C2_MndwiIndependentOfNdvi ==
    ( /\ prog = "analyzer"
      /\ pc \in {"done", "crashed"}
      /\ Exists(files["B03"])
      /\ Exists(files["B11"]) ) => "MNDWI" \in attempted

\* the profile of the crop exists from the end of the read to the write
ProfileBuilt == pc \in {"open_dst", "write"}

\* C6: the profile download_subset opens and writes the output with has the
\* window's width and height, for every window, and the band count, dtype
\* and CRS of the view's profile.
C6_ProfileMatchesWindow ==
    ProfileBuilt =>
        /\ profile.width = window.width
        /\ profile.height = window.height
        /\ profile.count = view.profile.count
        /\ profile.dtype = view.profile.dtype
        /\ profile.crs = view.profile.crs

\* the output of a 1 x 1 window of the 4 x 4 single-band view is being written
C6_Witness ==
    /\ pc = "write"
    /\ handles["dst"] = "open"
    /\ view.profile.width = 4
    /\ window = MakeWindow(1, 0, 1, 1)
    /\ profile.width = 1
    /\ profile.height = 1
    /\ profile.count = 1
    /\ profile.dtype = "uint16"

\* C7: the transform of the output profile maps pixel (0, 0) to the world
\* coordinate the view's transform gives the window's first pixel
\* (row_off, col_off), and keeps the view's pixel size and rotation.
C7_CropGeoreferenced ==
    ProfileBuilt =>
        /\ Apply(profile.transform, 0, 0)
              = Apply(view.transform, window.col_off, window.row_off)
        /\ profile.transform.a = view.transform.a
        /\ profile.transform.b = view.transform.b
        /\ profile.transform.d = view.transform.d
        /\ profile.transform.e = view.transform.e

\* a window at column 1, row -1 of the rotated view: the origin moves from
\* (-7, 3) to (-7, 5)
C7_Witness ==
    /\ pc = "write"
    /\ view.transform = Affine(1, 1, -7, 1, -1, 3)
    /\ window.col_off = 1
    /\ window.row_off = -1
    /\ profile.transform = Affine(1, 1, -7, 1, -1, 5)

\* C9: what main observes of a download_subset call tells the failure: a
\* transient-access error when the source could not be opened, a decoding
\* error when the window could not be read, both different from success.
C9_FailureKindReported ==
    (prog = "fetcher" /\ pc = "loop") =>
        /\ failedAt = "open_src" => ret = "TransientAccessError"
        /\ failedAt = "read" => ret = "DecodingError"
        /\ failedAt \in DownloadSteps => ret # "None"

\* C10: with --save and an index of ndvi, ndwi or all, and an item found,
\* no failure inside download_subset leaves the loop, and at the end of main
\* download_subset has been called exactly once for each required band, with
\* search_bbox, and for no other band.
C10_EveryBandAttemptedOnce ==
    prog = "fetcher" =>
        /\ pc # "crashed"
        /\ (pc = "done" /\ args.save /\ args.index \in {"ndvi", "ndwi", "all"}) =>
              \A b \in Bands :
                IF b \in RequiredBands(args.index)
                THEN calls[b] = 1 /\ callBbox[b] = search_bbox
                ELSE calls[b] = 0

\* the run for "all" ended with four calls of which only the one for B04
\* wrote its file, the last call having failed
C10_Witness ==
    /\ prog = "fetcher"
    /\ pc = "done"
    /\ args.index = "all"
    /\ \A b \in Bands : calls[b] = 1 /\ callBbox[b] = search_bbox
    /\ saved \cap Bands = {"B04"}
    /\ failedAt \in DownloadSteps

(***************************************************************************)
(* SpecIndex: calculate_index called on a pair of bands, in both orders.   *)
(***************************************************************************)
IndexInit ==
    /\ band1 \in Rasters
    /\ band2 \in Rasters
    /\ fwd = NotRun
    /\ rev = NotRun
    /\ DriverIdle

CallForward ==
    /\ fwd = NotRun
    /\ fwd' = CalculateIndex(band1, band2)
    /\ UNCHANGED <<band1, band2, rev, dvars>>

CallReverse ==
    /\ fwd # NotRun
    /\ rev = NotRun
    /\ rev' = CalculateIndex(band2, band1)
    /\ UNCHANGED <<band1, band2, fwd, dvars>>

IndexNext == CallForward \/ CallReverse

SpecIndex == IndexInit /\ [][IndexNext]_vars

(***************************************************************************)
(* Claims on calculate_index (checked under SpecIndex).                    *)
(***************************************************************************)
EqualShape == Shape(band1) = Shape(band2)

Positions == (1..Rows(band1)) \X (1..Cols(band1))

\* C3: for equal-shape bands, every position where a + b = 0 holds exactly
\* 0.0 in the index array calculate_index returns, never nan or inf.
C3_ZeroSumGivesZero ==
    (fwd.status = "ok" /\ EqualShape) =>
        \A p \in Positions :
            band1[p[1]][p[2]] + band2[p[1]][p[2]] = 0
                => fwd.index_map[p[1]][p[2]] = Zero

\* the scenario's second row: a = [0, 5], b = [0, 0] gives [0.0, 1.0]
C3_Witness ==
    /\ band1 = <<<<0, 5>>>>
    /\ band2 = <<<<0, 0>>>>
    /\ fwd = IndexResult("ok", <<<<Zero, One>>>>)

\* C4: for equal-shape bands of non-negative pixels with no zero-sum
\* position, every element of the index array is the quotient
\* (a - b) / (a + b) of the pixels' mathematical values (negative when
\* a < b) and lies in [-1, 1].
C4_QuotientOfMathematicalValues ==
    ( /\ fwd.status = "ok"
      /\ EqualShape
      /\ \A p \in Positions :
            /\ band1[p[1]][p[2]] >= 0
            /\ band2[p[1]][p[2]] >= 0
            /\ band1[p[1]][p[2]] + band2[p[1]][p[2]] # 0 ) =>
        \A p \in Positions :
            LET a == band1[p[1]][p[2]]
                b == band2[p[1]][p[2]]
                v == fwd.index_map[p[1]][p[2]]
            IN  /\ v = Rat(a - b, a + b)
                /\ InUnitRange(v)
                /\ (a < b) => v.n < 0

\* a < b at the first position, and a sum above 65535 at the second
C4_Witness ==
    /\ band1 = <<<<5, UInt16Modulus - 1>>>>
    /\ band2 = <<<<UInt16Modulus - 1, UInt16Modulus - 1>>>>
    /\ fwd = IndexResult("ok", <<<<Rat(5 - 65535, 5 + 65535), Zero>>>>)
    /\ fwd.index_map[1][1].n < 0

\* C5: for equal-shape bands the index of (a, b) is the negation of the
\* index of (b, a) at every position, the zero-sum positions included.
C5_Antisymmetry ==
    (fwd.status = "ok" /\ rev.status = "ok" /\ EqualShape) =>
        \A p \in Positions :
            fwd.index_map[p[1]][p[2]] = Neg(rev.index_map[p[1]][p[2]])

\* both orders computed on bands with a zero-sum position and a position
\* where the two indices are non-zero and opposite
C5_Witness ==
    /\ band1 = <<<<0, 5>>>>
    /\ band2 = <<<<0, UInt16Modulus - 1>>>>
    /\ fwd.status = "ok"
    /\ rev.status = "ok"
    /\ fwd.index_map[1][1] = Zero
    /\ rev.index_map[1][1] = Zero
    /\ fwd.index_map[1][2].n < 0
    /\ rev.index_map[1][2].n > 0

\* C8: whenever the two bands have different shapes, calculate_index ends
\* in an error and returns no index array.
C8_ShapeMismatchRejected ==
    (fwd.status # "NotRun" /\ ~EqualShape) => fwd.status = "ValueError"

====
